---- MODULE Spec2Model ----
(***************************************************************************)
(* Model of pyocd/probe/raspberrypi_probe.py: the SpiWrapper bus handle,   *)
(* the RaspberryPiProbe debug probe adapter and the options declared by    *)
(* RaspberryPiProbePlugin.                                                 *)
(*                                                                         *)
(* The probe is driven by one thread (the file has no concurrency): every  *)
(* method call is one action, except reset(), whose two sleeps are         *)
(* blocking points and which is therefore modelled step by step.           *)
(*                                                                         *)
(* Collaborators that live outside the file are modelled as recorders:     *)
(*   RPi.GPIO      gpio_setup (pins configured as outputs), gpio_level     *)
(*                 (last level written to each pin);                       *)
(*   spidev.SpiDev spi_dev_open, max_speed_hz;                             *)
(*   session.options  session_options (the values the probe reads) and     *)
(*                 subscriptions (the option names whose changes are       *)
(*                 delivered to _change_options).                          *)
(* The probe is attached to a session, as it is whenever pyOCD uses it.    *)
(*                                                                         *)
(* Whether the file can be imported at all depends on the interpreter: the *)
(* annotation Optional[Protocol] of connect names nothing the file         *)
(* defines.  Where annotations are evaluated when the class is created     *)
(* (Python before 3.14) the import raises NameError and there is no probe  *)
(* to call; where they are evaluated lazily (3.14 on) the file loads.      *)
(* `module` holds which of the two happened.                               *)
(* `last` records the most recent call, its argument and how it ended.     *)
(***************************************************************************)
EXTENDS Integers, Sequences, FiniteSets, TLC

\* ------------------------------------------------------------------ bounds
NumPins == 2
MaxDelay == 1
MaxTail == 4
MaxIndex == 11

\* ------------------------------------------------------- program constants
NRESET_DEFAULT == 23
DIO_DEFAULT == 24
CLK_DEFAULT == 25

NRESET_GPIO_OPTION == "raspberrypiprobe.gpio.nreset"
DIO_GPIO_OPTION == "raspberrypiprobe.gpio.dio"
CLK_GPIO_OPTION == "raspberrypiprobe.gpio.clk"

GpioOptions == {NRESET_GPIO_OPTION, DIO_GPIO_OPTION, CLK_GPIO_OPTION}

\* DebugProbe.Protocol, plus Python's None
None == "None"
Protocol == {"DEFAULT", "SWD", "JTAG"}

\* BCM pin numbers an option can select; the declared nRESET default is one
Pins == NRESET_DEFAULT .. (NRESET_DEFAULT + NumPins - 1)
\* Durations a delay option can hold: none, or the longest considered
Delays == {0, MaxDelay}

\* GPIO levels: GPIO.output(pin, False) drives low, GPIO.output(pin, True) high
Level(value) == IF value THEN "high" ELSE "low"

VARIABLES
    module,           \* how importing the file ended: "loaded" or "NameError"
    spi_is_open,      \* SpiWrapper.is_open
    spi_is_close,     \* SpiWrapper.is_close: "absent" until close() creates it
    spi_dev_open,     \* whether the SpiDev device is open
    max_speed_hz,     \* SpiDev.max_speed_hz
    _is_connected,    \* RaspberryPiProbe._is_connected
    _reset,           \* RaspberryPiProbe._reset
    gpio_setup,       \* pins passed to GPIO.setup(pin, GPIO.OUT)
    gpio_level,       \* pin -> last level passed to GPIO.output, or "unset"
    session_options,  \* the session option values the probe reads
    subscriptions,    \* option names _change_options is subscribed to
    pc,               \* 0: no call in progress; k: reset() is about to end statement k
    reset_log,        \* what reset() has done, while it runs and until the next call
    last,             \* the most recent call: [op, arg, outcome]
    id_str,           \* identifier string under SpiWrapper.from_str / __str__
    id_handle,        \* the SpiWrapper handle produced (bus, device), or not
    id_phase          \* position in the identifier round trip

probe_vars == <<spi_is_open, spi_is_close, spi_dev_open, max_speed_hz,
                _is_connected, _reset, gpio_setup, gpio_level,
                session_options, subscriptions, pc, reset_log, last>>
id_vars == <<id_str, id_handle, id_phase>>
vars == <<module, probe_vars, id_vars>>

\* The ways the import of the file can end: connect's annotation
\* Optional[Protocol] is evaluated lazily, or when the class is created
ModuleOutcomes == {"loaded", "NameError"}

\* A call is made on the imported file, which stays imported; where the
\* import raised there is no class and nothing to call
OnImportedModule ==
    /\ module = "loaded"
    /\ UNCHANGED module

Call(op, arg, outcome) == [op |-> op, arg |-> arg, outcome |-> outcome]

\* A call other than reset() ends: it is now the most recent call, and the
\* record of the previous reset() is dropped.
Ends(op, arg, outcome) ==
    /\ last' = Call(op, arg, outcome)
    /\ reset_log' = <<>>

\* ------------------------------------------------------ declared properties
supported_wire_protocols == <<"DEFAULT", "SWD">>

\* Variant of wire_protocol that reports SWD whether connected or not
wire_protocol_ignores_connection == "SWD"

wire_protocol == IF _is_connected THEN "SWD" ELSE None

is_open == spi_is_open

capabilities == {"SWJ_SEQUENCE", "SWD_SEQUENCE"}

is_reset_asserted == _reset

\* RaspberryPiProbePlugin.options: (name, type, default) of each OptionInfo
options ==
    << [name |-> NRESET_GPIO_OPTION, type |-> "int", default |-> NRESET_DEFAULT],
       [name |-> DIO_GPIO_OPTION,    type |-> "int", default |-> DIO_DEFAULT],
       [name |-> DIO_GPIO_OPTION,    type |-> "int", default |-> CLK_DEFAULT] >>

\* ------------------------------------------------------------- SpiWrapper
SpiWrapper_open ==
    /\ spi_dev_open' = TRUE
    /\ spi_is_open' = TRUE
    /\ UNCHANGED spi_is_close

SpiWrapper_close ==
    /\ spi_dev_open' = FALSE
    /\ spi_is_close' = "False"
    /\ UNCHANGED spi_is_open

\* int(frequency) of a non-negative frequency given in half-hertz
SpiWrapper_set_clock(half_hz) == max_speed_hz' = half_hz \div 2

\* --------------------------------------------------------- RaspberryPiProbe
open ==
    /\ OnImportedModule
    /\ pc = 0
    /\ SpiWrapper_open
    /\ Ends("open", <<>>, "None")
    /\ UNCHANGED <<max_speed_hz, _is_connected, _reset, gpio_setup, gpio_level,
                   session_options, subscriptions, pc, id_vars>>

close ==
    /\ OnImportedModule
    /\ pc = 0
    /\ SpiWrapper_close
    /\ Ends("close", <<>>, "None")
    /\ UNCHANGED <<max_speed_hz, _is_connected, _reset, gpio_setup, gpio_level,
                   session_options, subscriptions, pc, id_vars>>

\* Variant of connect that marks the probe connected before it validates
\* the protocol
connect_marks_before_validating(protocol) ==
    /\ OnImportedModule
    /\ pc = 0
    /\ _is_connected' = TRUE
    /\ LET selected == IF protocol = None \/ protocol = "DEFAULT"
                       THEN "SWD" ELSE protocol
       IN IF selected # "SWD"
          THEN /\ Ends("connect", <<protocol>>, "ValueError")
               /\ UNCHANGED <<gpio_setup, subscriptions>>
          ELSE /\ gpio_setup' = gpio_setup \cup {session_options.nreset}
               /\ subscriptions' =
                      subscriptions \cup {DIO_GPIO_OPTION, CLK_GPIO_OPTION}
               /\ Ends("connect", <<protocol>>, "None")
    /\ UNCHANGED <<spi_is_open, spi_is_close, spi_dev_open, max_speed_hz, _reset,
                   gpio_level, session_options, pc, id_vars>>

connect(protocol) ==
    /\ OnImportedModule
    /\ pc = 0
    /\ LET selected == IF protocol = None \/ protocol = "DEFAULT"
                       THEN "SWD" ELSE protocol
       IN IF selected # "SWD"
          THEN /\ Ends("connect", <<protocol>>, "ValueError")
               /\ UNCHANGED <<_is_connected, gpio_setup, subscriptions>>
          ELSE /\ _is_connected' = TRUE
               /\ gpio_setup' = gpio_setup \cup {session_options.nreset}
               /\ subscriptions' =
                      subscriptions \cup {DIO_GPIO_OPTION, CLK_GPIO_OPTION}
               /\ Ends("connect", <<protocol>>, "None")
    /\ UNCHANGED <<spi_is_open, spi_is_close, spi_dev_open, max_speed_hz, _reset,
                   gpio_level, session_options, pc, id_vars>>

disconnect ==
    /\ OnImportedModule
    /\ pc = 0
    /\ _is_connected' = FALSE
    /\ Ends("disconnect", <<>>, "None")
    /\ UNCHANGED <<spi_is_open, spi_is_close, spi_dev_open, max_speed_hz, _reset,
                   gpio_setup, gpio_level, session_options, subscriptions, pc, id_vars>>

set_clock(half_hz) ==
    /\ OnImportedModule
    /\ pc = 0
    /\ SpiWrapper_set_clock(half_hz)
    /\ Ends("set_clock", <<half_hz>>, "None")
    /\ UNCHANGED <<spi_is_open, spi_is_close, spi_dev_open, _is_connected, _reset,
                   gpio_setup, gpio_level, session_options, subscriptions, pc, id_vars>>

\* Variant of the body of assert_reset that records True whatever is passed
assert_reset_body_records_true(asserted) ==
    /\ gpio_level' = [gpio_level EXCEPT ![session_options.nreset] = Level(FALSE)]
    /\ _reset' = TRUE

\* The body of assert_reset: the value written to the nRESET pin is the
\* literal False, whatever `asserted` is; `asserted` is recorded in _reset.
assert_reset_body(asserted) ==
    /\ gpio_level' = [gpio_level EXCEPT ![session_options.nreset] = Level(FALSE)]
    /\ _reset' = asserted

assert_reset(asserted) ==
    /\ OnImportedModule
    /\ pc = 0
    /\ assert_reset_body(asserted)
    /\ Ends("assert_reset", <<asserted>>, "None")
    /\ UNCHANGED <<spi_is_open, spi_is_close, spi_dev_open, max_speed_hz,
                   _is_connected, gpio_setup, session_options, subscriptions, pc, id_vars>>

\* session.options.get(name) for the options the probe reads
OptionValue(name) ==
    CASE name = NRESET_GPIO_OPTION -> session_options.nreset
      [] name = "reset.hold_time" -> session_options.hold_time
      [] name = "reset.post_delay" -> session_options.post_delay

\* Variant of reset() that releases the reset before the hold time has passed
reset_steps_release_before_hold ==
    << <<"assert_reset", "True">>,
       <<"assert_reset", "False">>,
       <<"sleep", "reset.hold_time">>,
       <<"sleep", "reset.post_delay">> >>

\* The statements of reset(), in program order
reset_steps ==
    << <<"assert_reset", "True">>,
       <<"sleep", "reset.hold_time">>,
       <<"assert_reset", "False">>,
       <<"sleep", "reset.post_delay">> >>

\* Statement k of reset(): a call of assert_reset, or a sleep of the
\* configured duration; `log` is what reset() has done so far.
reset_statement(k, log) ==
    LET st == reset_steps[k] IN
    IF st[1] = "assert_reset"
    THEN /\ assert_reset_body(st[2] = "True")
         /\ reset_log' = Append(log, [call |-> st[1], arg |-> st[2], slept |-> 0])
    ELSE /\ UNCHANGED <<gpio_level, _reset>>
         /\ reset_log' = Append(log, [call |-> st[1], arg |-> st[2],
                                      slept |-> OptionValue(st[2])])

\* reset() is called: its first statement runs
reset ==
    /\ OnImportedModule
    /\ pc = 0
    /\ reset_statement(1, <<>>)
    /\ pc' = 2
    /\ last' = Call("reset", <<>>, "running")
    /\ UNCHANGED <<spi_is_open, spi_is_close, spi_dev_open, max_speed_hz,
                   _is_connected, gpio_setup, session_options, subscriptions,
                   id_vars>>

\* reset() goes on: the next statement runs; after the last one it returns
reset_step ==
    /\ OnImportedModule
    /\ pc >= 2
    /\ pc <= Len(reset_steps)
    /\ reset_statement(pc, reset_log)
    /\ IF pc = Len(reset_steps)
       THEN pc' = 0 /\ last' = Call("reset", <<>>, "None")
       ELSE pc' = pc + 1 /\ UNCHANGED last
    /\ UNCHANGED <<spi_is_open, spi_is_close, spi_dev_open, max_speed_hz,
                   _is_connected, gpio_setup, session_options, subscriptions,
                   id_vars>>

\* A method that touches no state and ends with `outcome`
stub(op, arg, outcome) ==
    /\ OnImportedModule
    /\ pc = 0
    /\ Ends(op, arg, outcome)
    /\ UNCHANGED <<spi_is_open, spi_is_close, spi_dev_open, max_speed_hz,
                   _is_connected, _reset, gpio_setup, gpio_level, session_options,
                   subscriptions, pc, id_vars>>

\* `pass`: returns None
swj_sequence(length, bits) == stub("swj_sequence", <<length, bits>>, "None")

swd_sequence(sequences) == stub("swd_sequence", <<sequences>>, "NotImplementedError")

read_dp(addr, now) == stub("read_dp", <<addr, now>>, "NotImplementedError")

write_dp(addr, data) == stub("write_dp", <<addr, data>>, "NotImplementedError")

read_ap(addr, now) == stub("read_ap", <<addr, now>>, "NotImplementedError")

write_ap(addr, data) == stub("write_ap", <<addr, data>>, "NotImplementedError")

read_ap_multiple(addr, count, now) ==
    stub("read_ap_multiple", <<addr, count, now>>, "NotImplementedError")

write_ap_multiple(addr, values) ==
    stub("write_ap_multiple", <<addr, values>>, "NotImplementedError")

swo_start(baudrate) == stub("swo_start", <<baudrate>>, "NotImplementedError")

swo_stop == stub("swo_stop", <<>>, "NotImplementedError")

swo_read == stub("swo_read", <<>>, "NotImplementedError")

\* _change_options(notification): what it does to the GPIO set-up, given the
\* option values after the change, and how it ends
_change_options(event) ==
    IF event = NRESET_GPIO_OPTION
    THEN gpio_setup' = gpio_setup \cup {session_options'.nreset}
    ELSE UNCHANGED gpio_setup

_change_options_outcome(event) ==
    IF event = NRESET_GPIO_OPTION THEN "None"
    ELSE IF event = DIO_GPIO_OPTION THEN "NotImplementedError"
    ELSE IF event = CLK_GPIO_OPTION THEN "NotImplementedError"
    ELSE "None"

\* session.options.set(name, value): the value changes, and the change is
\* notified to _change_options when the probe subscribed to that name.
\* The values of the dio and clk options are read nowhere and not kept.
OptionDomain(name) ==
    IF name \in GpioOptions THEN Pins ELSE Delays

set_option(name, value) ==
    /\ OnImportedModule
    /\ pc = 0
    /\ value \in OptionDomain(name)
    /\ name \notin {DIO_GPIO_OPTION, CLK_GPIO_OPTION} => value # OptionValue(name)
    /\ session_options' =
         CASE name = NRESET_GPIO_OPTION -> [session_options EXCEPT !.nreset = value]
           [] name = "reset.hold_time" -> [session_options EXCEPT !.hold_time = value]
           [] name = "reset.post_delay" -> [session_options EXCEPT !.post_delay = value]
           [] OTHER -> session_options
    /\ IF name \in subscriptions
       THEN /\ _change_options(name)
            /\ Ends("set_option", <<name>>, _change_options_outcome(name))
       ELSE /\ UNCHANGED gpio_setup
            /\ Ends("set_option", <<name>>, "None")
    /\ UNCHANGED <<spi_is_open, spi_is_close, spi_dev_open, max_speed_hz,
                   _is_connected, _reset, gpio_level, subscriptions, pc, id_vars>>

\* The default the option list declares for `name`
OptionDefault(name) ==
    LET i == CHOOSE j \in 1..Len(options) : options[j].name = name
    IN options[i].default

NoHandle == [ok |-> FALSE, bus |-> 0, device |-> 0]

IdIdle ==
    /\ id_str = <<>>
    /\ id_handle = NoHandle
    /\ id_phase = "none"

\* ------------------------------------------- SpiWrapper identifier strings
\* A string is a sequence of characters.  An ASCII character is the
\* one-character string; any other character is the string "U+" followed by
\* its code point in hexadecimal (four digits at least), so "U+0661" is
\* ARABIC-INDIC DIGIT ONE.

\* The digits an f-string writes for an integer
Digits == <<"0", "1", "2", "3", "4", "5", "6", "7", "8", "9">>

\* The characters \d matches and int() converts (the pattern is a str pattern
\* without re.ASCII): every decimal digit of Unicode (category Nd, Unicode
\* 14.0.0), grouped by value: DecimalDigits[v + 1] are the digits of value v.
DecimalDigits ==
    <<
       {"0", "U+0660", "U+06F0", "U+07C0", "U+0966", "U+09E6", "U+0A66",
        "U+0AE6", "U+0B66", "U+0BE6", "U+0C66", "U+0CE6", "U+0D66",
        "U+0DE6", "U+0E50", "U+0ED0", "U+0F20", "U+1040", "U+1090",
        "U+17E0", "U+1810", "U+1946", "U+19D0", "U+1A80", "U+1A90",
        "U+1B50", "U+1BB0", "U+1C40", "U+1C50", "U+A620", "U+A8D0",
        "U+A900", "U+A9D0", "U+A9F0", "U+AA50", "U+ABF0", "U+FF10",
        "U+104A0", "U+10D30", "U+11066", "U+110F0", "U+11136", "U+111D0",
        "U+112F0", "U+11450", "U+114D0", "U+11650", "U+116C0", "U+11730",
        "U+118E0", "U+11950", "U+11C50", "U+11D50", "U+11DA0", "U+16A60",
        "U+16AC0", "U+16B50", "U+1D7CE", "U+1D7D8", "U+1D7E2", "U+1D7EC",
        "U+1D7F6", "U+1E140", "U+1E2F0", "U+1E950", "U+1FBF0"},
       {"1", "U+0661", "U+06F1", "U+07C1", "U+0967", "U+09E7", "U+0A67",
        "U+0AE7", "U+0B67", "U+0BE7", "U+0C67", "U+0CE7", "U+0D67",
        "U+0DE7", "U+0E51", "U+0ED1", "U+0F21", "U+1041", "U+1091",
        "U+17E1", "U+1811", "U+1947", "U+19D1", "U+1A81", "U+1A91",
        "U+1B51", "U+1BB1", "U+1C41", "U+1C51", "U+A621", "U+A8D1",
        "U+A901", "U+A9D1", "U+A9F1", "U+AA51", "U+ABF1", "U+FF11",
        "U+104A1", "U+10D31", "U+11067", "U+110F1", "U+11137", "U+111D1",
        "U+112F1", "U+11451", "U+114D1", "U+11651", "U+116C1", "U+11731",
        "U+118E1", "U+11951", "U+11C51", "U+11D51", "U+11DA1", "U+16A61",
        "U+16AC1", "U+16B51", "U+1D7CF", "U+1D7D9", "U+1D7E3", "U+1D7ED",
        "U+1D7F7", "U+1E141", "U+1E2F1", "U+1E951", "U+1FBF1"},
       {"2", "U+0662", "U+06F2", "U+07C2", "U+0968", "U+09E8", "U+0A68",
        "U+0AE8", "U+0B68", "U+0BE8", "U+0C68", "U+0CE8", "U+0D68",
        "U+0DE8", "U+0E52", "U+0ED2", "U+0F22", "U+1042", "U+1092",
        "U+17E2", "U+1812", "U+1948", "U+19D2", "U+1A82", "U+1A92",
        "U+1B52", "U+1BB2", "U+1C42", "U+1C52", "U+A622", "U+A8D2",
        "U+A902", "U+A9D2", "U+A9F2", "U+AA52", "U+ABF2", "U+FF12",
        "U+104A2", "U+10D32", "U+11068", "U+110F2", "U+11138", "U+111D2",
        "U+112F2", "U+11452", "U+114D2", "U+11652", "U+116C2", "U+11732",
        "U+118E2", "U+11952", "U+11C52", "U+11D52", "U+11DA2", "U+16A62",
        "U+16AC2", "U+16B52", "U+1D7D0", "U+1D7DA", "U+1D7E4", "U+1D7EE",
        "U+1D7F8", "U+1E142", "U+1E2F2", "U+1E952", "U+1FBF2"},
       {"3", "U+0663", "U+06F3", "U+07C3", "U+0969", "U+09E9", "U+0A69",
        "U+0AE9", "U+0B69", "U+0BE9", "U+0C69", "U+0CE9", "U+0D69",
        "U+0DE9", "U+0E53", "U+0ED3", "U+0F23", "U+1043", "U+1093",
        "U+17E3", "U+1813", "U+1949", "U+19D3", "U+1A83", "U+1A93",
        "U+1B53", "U+1BB3", "U+1C43", "U+1C53", "U+A623", "U+A8D3",
        "U+A903", "U+A9D3", "U+A9F3", "U+AA53", "U+ABF3", "U+FF13",
        "U+104A3", "U+10D33", "U+11069", "U+110F3", "U+11139", "U+111D3",
        "U+112F3", "U+11453", "U+114D3", "U+11653", "U+116C3", "U+11733",
        "U+118E3", "U+11953", "U+11C53", "U+11D53", "U+11DA3", "U+16A63",
        "U+16AC3", "U+16B53", "U+1D7D1", "U+1D7DB", "U+1D7E5", "U+1D7EF",
        "U+1D7F9", "U+1E143", "U+1E2F3", "U+1E953", "U+1FBF3"},
       {"4", "U+0664", "U+06F4", "U+07C4", "U+096A", "U+09EA", "U+0A6A",
        "U+0AEA", "U+0B6A", "U+0BEA", "U+0C6A", "U+0CEA", "U+0D6A",
        "U+0DEA", "U+0E54", "U+0ED4", "U+0F24", "U+1044", "U+1094",
        "U+17E4", "U+1814", "U+194A", "U+19D4", "U+1A84", "U+1A94",
        "U+1B54", "U+1BB4", "U+1C44", "U+1C54", "U+A624", "U+A8D4",
        "U+A904", "U+A9D4", "U+A9F4", "U+AA54", "U+ABF4", "U+FF14",
        "U+104A4", "U+10D34", "U+1106A", "U+110F4", "U+1113A", "U+111D4",
        "U+112F4", "U+11454", "U+114D4", "U+11654", "U+116C4", "U+11734",
        "U+118E4", "U+11954", "U+11C54", "U+11D54", "U+11DA4", "U+16A64",
        "U+16AC4", "U+16B54", "U+1D7D2", "U+1D7DC", "U+1D7E6", "U+1D7F0",
        "U+1D7FA", "U+1E144", "U+1E2F4", "U+1E954", "U+1FBF4"},
       {"5", "U+0665", "U+06F5", "U+07C5", "U+096B", "U+09EB", "U+0A6B",
        "U+0AEB", "U+0B6B", "U+0BEB", "U+0C6B", "U+0CEB", "U+0D6B",
        "U+0DEB", "U+0E55", "U+0ED5", "U+0F25", "U+1045", "U+1095",
        "U+17E5", "U+1815", "U+194B", "U+19D5", "U+1A85", "U+1A95",
        "U+1B55", "U+1BB5", "U+1C45", "U+1C55", "U+A625", "U+A8D5",
        "U+A905", "U+A9D5", "U+A9F5", "U+AA55", "U+ABF5", "U+FF15",
        "U+104A5", "U+10D35", "U+1106B", "U+110F5", "U+1113B", "U+111D5",
        "U+112F5", "U+11455", "U+114D5", "U+11655", "U+116C5", "U+11735",
        "U+118E5", "U+11955", "U+11C55", "U+11D55", "U+11DA5", "U+16A65",
        "U+16AC5", "U+16B55", "U+1D7D3", "U+1D7DD", "U+1D7E7", "U+1D7F1",
        "U+1D7FB", "U+1E145", "U+1E2F5", "U+1E955", "U+1FBF5"},
       {"6", "U+0666", "U+06F6", "U+07C6", "U+096C", "U+09EC", "U+0A6C",
        "U+0AEC", "U+0B6C", "U+0BEC", "U+0C6C", "U+0CEC", "U+0D6C",
        "U+0DEC", "U+0E56", "U+0ED6", "U+0F26", "U+1046", "U+1096",
        "U+17E6", "U+1816", "U+194C", "U+19D6", "U+1A86", "U+1A96",
        "U+1B56", "U+1BB6", "U+1C46", "U+1C56", "U+A626", "U+A8D6",
        "U+A906", "U+A9D6", "U+A9F6", "U+AA56", "U+ABF6", "U+FF16",
        "U+104A6", "U+10D36", "U+1106C", "U+110F6", "U+1113C", "U+111D6",
        "U+112F6", "U+11456", "U+114D6", "U+11656", "U+116C6", "U+11736",
        "U+118E6", "U+11956", "U+11C56", "U+11D56", "U+11DA6", "U+16A66",
        "U+16AC6", "U+16B56", "U+1D7D4", "U+1D7DE", "U+1D7E8", "U+1D7F2",
        "U+1D7FC", "U+1E146", "U+1E2F6", "U+1E956", "U+1FBF6"},
       {"7", "U+0667", "U+06F7", "U+07C7", "U+096D", "U+09ED", "U+0A6D",
        "U+0AED", "U+0B6D", "U+0BED", "U+0C6D", "U+0CED", "U+0D6D",
        "U+0DED", "U+0E57", "U+0ED7", "U+0F27", "U+1047", "U+1097",
        "U+17E7", "U+1817", "U+194D", "U+19D7", "U+1A87", "U+1A97",
        "U+1B57", "U+1BB7", "U+1C47", "U+1C57", "U+A627", "U+A8D7",
        "U+A907", "U+A9D7", "U+A9F7", "U+AA57", "U+ABF7", "U+FF17",
        "U+104A7", "U+10D37", "U+1106D", "U+110F7", "U+1113D", "U+111D7",
        "U+112F7", "U+11457", "U+114D7", "U+11657", "U+116C7", "U+11737",
        "U+118E7", "U+11957", "U+11C57", "U+11D57", "U+11DA7", "U+16A67",
        "U+16AC7", "U+16B57", "U+1D7D5", "U+1D7DF", "U+1D7E9", "U+1D7F3",
        "U+1D7FD", "U+1E147", "U+1E2F7", "U+1E957", "U+1FBF7"},
       {"8", "U+0668", "U+06F8", "U+07C8", "U+096E", "U+09EE", "U+0A6E",
        "U+0AEE", "U+0B6E", "U+0BEE", "U+0C6E", "U+0CEE", "U+0D6E",
        "U+0DEE", "U+0E58", "U+0ED8", "U+0F28", "U+1048", "U+1098",
        "U+17E8", "U+1818", "U+194E", "U+19D8", "U+1A88", "U+1A98",
        "U+1B58", "U+1BB8", "U+1C48", "U+1C58", "U+A628", "U+A8D8",
        "U+A908", "U+A9D8", "U+A9F8", "U+AA58", "U+ABF8", "U+FF18",
        "U+104A8", "U+10D38", "U+1106E", "U+110F8", "U+1113E", "U+111D8",
        "U+112F8", "U+11458", "U+114D8", "U+11658", "U+116C8", "U+11738",
        "U+118E8", "U+11958", "U+11C58", "U+11D58", "U+11DA8", "U+16A68",
        "U+16AC8", "U+16B58", "U+1D7D6", "U+1D7E0", "U+1D7EA", "U+1D7F4",
        "U+1D7FE", "U+1E148", "U+1E2F8", "U+1E958", "U+1FBF8"},
       {"9", "U+0669", "U+06F9", "U+07C9", "U+096F", "U+09EF", "U+0A6F",
        "U+0AEF", "U+0B6F", "U+0BEF", "U+0C6F", "U+0CEF", "U+0D6F",
        "U+0DEF", "U+0E59", "U+0ED9", "U+0F29", "U+1049", "U+1099",
        "U+17E9", "U+1819", "U+194F", "U+19D9", "U+1A89", "U+1A99",
        "U+1B59", "U+1BB9", "U+1C49", "U+1C59", "U+A629", "U+A8D9",
        "U+A909", "U+A9D9", "U+A9F9", "U+AA59", "U+ABF9", "U+FF19",
        "U+104A9", "U+10D39", "U+1106F", "U+110F9", "U+1113F", "U+111D9",
        "U+112F9", "U+11459", "U+114D9", "U+11659", "U+116C9", "U+11739",
        "U+118E9", "U+11959", "U+11C59", "U+11D59", "U+11DA9", "U+16A69",
        "U+16AC9", "U+16B59", "U+1D7D7", "U+1D7E1", "U+1D7EB", "U+1D7F5",
        "U+1D7FF", "U+1E149", "U+1E2F9", "U+1E959", "U+1FBF9"}
    >>

IsDigit(c) == \E v \in 1..Len(DecimalDigits) : c \in DecimalDigits[v]

DigitValue(c) == (CHOOSE v \in 1..Len(DecimalDigits) : c \in DecimalDigits[v]) - 1

\* "/dev/spidev", the literal head of the pattern and of __str__'s format
DevPrefix == <<"/", "d", "e", "v", "/", "s", "p", "i", "d", "e", "v">>

\* The interpreter's limit on the number of digits in a conversion between
\* int and str (sys.int_info.default_max_str_digits)
INT_MAX_STR_DIGITS == 4300

\* The number a run of decimal digits writes, most significant digit first
RECURSIVE digits_value(_)
digits_value(text) ==
    IF Len(text) = 0 THEN 0
    ELSE 10 * digits_value(SubSeq(text, 1, Len(text) - 1))
         + DigitValue(text[Len(text)])

\* The same number, computed from the digits that follow the leading zeros
decimal_value(text) ==
    LET nonzero == {i \in 1..Len(text) : DigitValue(text[i]) # 0}
    IN IF nonzero = {} THEN 0
       ELSE digits_value(SubSeq(text,
                                CHOOSE i \in nonzero : \A j \in nonzero : i <= j,
                                Len(text)))

\* int(text) of a non-empty run of decimal digits: the number, or ok = FALSE
\* for the ValueError raised on a run longer than the limit
int(text) ==
    IF Len(text) > INT_MAX_STR_DIGITS
    THEN [ok |-> FALSE, value |-> 0]
    ELSE [ok |-> TRUE, value |-> decimal_value(text)]

\* The decimal digits of a non-negative integer
RECURSIVE decimal_text(_)
decimal_text(n) ==
    IF n < 10 THEN <<Digits[n + 1]>>
    ELSE decimal_text(n \div 10) \o <<Digits[(n % 10) + 1]>>

\* What an f-string produces for a non-negative integer: its decimal digits,
\* or ok = FALSE for the ValueError raised when they are more than the limit
format_int(n) ==
    LET text == decimal_text(n) IN
    IF Len(text) > INT_MAX_STR_DIGITS
    THEN [ok |-> FALSE, text |-> <<>>]
    ELSE [ok |-> TRUE, text |-> text]

\* SpiWrapper.__str__: the identifier, or ok = FALSE for ValueError
__str__(bus, device) ==
    LET b == format_int(bus)
        d == format_int(device)
    IN IF b.ok /\ d.ok
       THEN [ok |-> TRUE, text |-> DevPrefix \o b.text \o <<".">> \o d.text]
       ELSE [ok |-> FALSE, text |-> <<>>]

\* The index after the longest run of digits of s that starts at index i (\d+
\* is greedy, and what follows it in the pattern is never a digit, so the
\* longest run is the only one that can match)
digits_end(s, i) ==
    LET stops == {j \in i..Len(s) : ~IsDigit(s[j])}
    IN IF stops = {} THEN IF i > Len(s) THEN i ELSE Len(s) + 1
       ELSE CHOOSE j \in stops : \A k \in stops : j <= k

\* re.match(r'/dev/spidev(\d+)\.(\d+)', s): the pattern must match at the
\* start of s; nothing is required of what follows the match.
re_match(s) ==
    LET b == Len(DevPrefix) + 1
        e1 == digits_end(s, b)
        e2 == digits_end(s, e1 + 1)
    IN IF /\ Len(s) >= Len(DevPrefix)
          /\ SubSeq(s, 1, Len(DevPrefix)) = DevPrefix
          /\ e1 > b
          /\ e1 <= Len(s)
          /\ s[e1] = "."
          /\ e2 > e1 + 1
       THEN [matched |-> TRUE, group1 |-> SubSeq(s, b, e1 - 1),
             group2 |-> SubSeq(s, e1 + 1, e2 - 1)]
       ELSE [matched |-> FALSE, group1 |-> <<>>, group2 |-> <<>>]

\* SpiWrapper.from_str: the handle, or ok = FALSE for ValueError
from_str(s) ==
    LET match == re_match(s)
        bus == int(match.group1)
        device == int(match.group2)
    IN IF match.matched /\ bus.ok /\ device.ok
       THEN [ok |-> TRUE, bus |-> bus.value, device |-> device.value]
       ELSE [ok |-> FALSE, bus |-> 0, device |-> 0]

\* Identifier strings tried: a head, then up to MaxTail characters
IdHeads == {DevPrefix, SubSeq(DevPrefix, 1, Len(DevPrefix) - 1), <<>>}
IdAlphabet == {"0", "1", "U+0662", ".", "x"}
IdTails == UNION {[1..n -> IdAlphabet] : n \in 0..MaxTail}
IdInputs == {h \o t : h \in IdHeads, t \in IdTails}

\* RaspberryPiProbe.get_probe_with_id(unique_id): the handle is parsed from
\* the identifier
get_probe_with_id ==
    /\ OnImportedModule
    /\ id_phase \in {"input", "formatted"}
    /\ id_handle' = from_str(id_str)
    /\ id_phase' = IF id_phase = "input" THEN "parsed" ELSE "reparsed"
    /\ UNCHANGED <<id_str, probe_vars>>

\* RaspberryPiProbe.unique_id: the identifier is formatted from the handle,
\* unless the formatting raises ValueError
unique_id ==
    /\ OnImportedModule
    /\ id_phase \in {"handle", "parsed"}
    /\ id_handle.ok
    /\ LET formatted == __str__(id_handle.bus, id_handle.device)
       IN IF formatted.ok
          THEN id_str' = formatted.text /\ id_phase' = "formatted"
          ELSE id_str' = id_str /\ id_phase' = "ValueError"
    /\ UNCHANGED <<id_handle, probe_vars>>

\* The file has been imported; where that succeeded, a probe has just been
\* constructed over a closed handle and attached to a session
ProbeInit ==
    /\ module \in ModuleOutcomes
    /\ spi_is_open = FALSE
    /\ spi_is_close = "absent"
    /\ spi_dev_open = FALSE
    /\ max_speed_hz = 0
    /\ _is_connected = FALSE
    /\ _reset = FALSE
    /\ gpio_setup = {}
    /\ gpio_level = [p \in Pins |-> "unset"]
    /\ subscriptions = {}
    /\ pc = 0
    /\ reset_log = <<>>
    /\ last = IF module = "loaded"
              THEN Call("__init__", <<>>, "None")
              ELSE Call("import", <<>>, "NameError")

Init ==
    /\ ProbeInit
    /\ session_options \in [nreset : {OptionDefault(NRESET_GPIO_OPTION)},
                            hold_time : Delays, post_delay : Delays]
    /\ IdIdle

Next ==
    \/ open
    \/ close
    \/ \E protocol \in Protocol \cup {None} : connect(protocol)
    \/ disconnect
    \/ \E half_hz \in {3} : set_clock(half_hz)
    \/ \E asserted \in BOOLEAN : assert_reset(asserted)
    \/ reset
    \/ reset_step
    \/ \E length \in {8} : \E bits \in {255} : swj_sequence(length, bits)
    \/ \E sequences \in {<< <<8>> >>} : swd_sequence(sequences)
    \/ \E addr \in {0} : \E now \in {TRUE} : read_dp(addr, now)
    \/ \E addr \in {0} : \E data \in {1} : write_dp(addr, data)
    \/ \E addr \in {0} : \E now \in {TRUE} : read_ap(addr, now)
    \/ \E addr \in {0} : \E data \in {1} : write_ap(addr, data)
    \/ \E addr \in {0} : \E count \in {1} : \E now \in {TRUE} :
           read_ap_multiple(addr, count, now)
    \/ \E addr \in {0} : \E values \in {<<1>>} : write_ap_multiple(addr, values)
    \/ \E baudrate \in {115200} : swo_start(baudrate)
    \/ swo_stop
    \/ swo_read
    \/ \E name \in GpioOptions \cup {"reset.hold_time", "reset.post_delay"} :
           \E value \in Pins \cup Delays : set_option(name, value)

Spec == Init /\ [][Next]_vars

\* The identifier round trip alone: an identifier string to parse, or a
\* handle over a bus and device found by discovery
InitId ==
    /\ ProbeInit
    /\ session_options = [nreset |-> OptionDefault(NRESET_GPIO_OPTION),
                          hold_time |-> 0, post_delay |-> 0]
    /\ \/ /\ id_phase = "input"
          /\ id_str \in IdInputs
          /\ id_handle = NoHandle
       \/ /\ id_phase = "handle"
          /\ id_str = <<>>
          /\ id_handle \in [ok : {TRUE}, bus : 0..MaxIndex, device : 0..MaxIndex]

NextId ==
    \/ get_probe_with_id
    \/ unique_id

SpecId == InitId /\ [][NextId]_vars

\* ------------------------------------------------------------------ claims
Range(seq) == {seq[i] : i \in 1..Len(seq)}

TransferOps == {"read_dp", "write_dp", "read_ap", "write_ap", "read_ap_multiple",
                "write_ap_multiple", "swj_sequence", "swd_sequence"}
TraceOps == {"swo_start", "swo_stop", "swo_read"}

\* C1: a connect() with a protocol other than None, DEFAULT or SWD ends with
\* ValueError and changes none of is_open, the connected flag, wire_protocol,
\* the reset-asserted flag, the configured GPIO pins and the subscriptions.
C1_UnsupportedProtocolRejected ==
    [][ (last'.op = "connect" /\ last'.arg[1] \notin {None, "DEFAULT", "SWD"})
        => /\ last'.outcome = "ValueError"
           /\ is_open' = is_open
           /\ _is_connected' = _is_connected
           /\ wire_protocol' = wire_protocol
           /\ is_reset_asserted' = is_reset_asserted
           /\ gpio_setup' = gpio_setup
           /\ subscriptions' = subscriptions ]_vars

\* C1 witness: connect(JTAG) has just failed on an open, connected probe
\* whose reset is asserted.
C1_Witness ==
    /\ last = Call("connect", <<"JTAG">>, "ValueError")
    /\ is_open
    /\ _is_connected
    /\ is_reset_asserted
    /\ subscriptions # {}

\* C2: reset() asserts, waits reset.hold_time, deasserts, waits
\* reset.post_delay, in that order: the reset is reported asserted during the
\* hold wait, and when reset() has returned its four steps are those, with
\* the configured durations, and the reset is reported released.
C2_ResetSequence ==
    /\ pc \in {2, 3} => is_reset_asserted
    /\ pc = 2 => reset_log = << [call |-> "assert_reset", arg |-> "True", slept |-> 0] >>
    /\ pc = 3 => reset_log =
          << [call |-> "assert_reset", arg |-> "True", slept |-> 0],
             [call |-> "sleep", arg |-> "reset.hold_time",
              slept |-> session_options.hold_time] >>
    /\ pc = 4 => ~is_reset_asserted
    /\ last = Call("reset", <<>>, "None") =>
          /\ ~is_reset_asserted
          /\ reset_log =
               << [call |-> "assert_reset", arg |-> "True", slept |-> 0],
                  [call |-> "sleep", arg |-> "reset.hold_time",
                   slept |-> session_options.hold_time],
                  [call |-> "assert_reset", arg |-> "False", slept |-> 0],
                  [call |-> "sleep", arg |-> "reset.post_delay",
                   slept |-> session_options.post_delay] >>

\* C2 witness: reset() has returned on a connected probe, after a hold wait
\* of non-zero length.
C2_Witness ==
    /\ last = Call("reset", <<>>, "None")
    /\ Len(reset_log) = 4
    /\ reset_log[2].slept > 0
    /\ _is_connected

\* C3: is_reset_asserted() is False on a new probe and always equals the last
\* value passed to assert_reset(), directly or by reset(): a call of
\* assert_reset sets it to the argument, and no other operation changes it.
C3_ResetFlagIsLastAsserted ==
    /\ ~is_reset_asserted
    /\ [][ IF last'.op = "assert_reset"
           THEN is_reset_asserted' = last'.arg[1]
           ELSE IF last'.op = "reset"
           THEN (LET calls == SelectSeq(reset_log', LAMBDA e : e.call = "assert_reset")
                 IN /\ Len(calls) > 0
                    /\ is_reset_asserted' = (calls[Len(calls)].arg = "True"))
           ELSE is_reset_asserted' = is_reset_asserted ]_vars

\* C3 witness: the reset was asserted and is still reported asserted after
\* a later disconnect() on an open probe.
C3_Witness ==
    /\ last = Call("disconnect", <<>>, "None")
    /\ is_reset_asserted
    /\ is_open
    /\ subscriptions # {}

\* C4: every data-transfer and trace operation ends with
\* NotImplementedError, never with a normal return.
C4_TransfersUnsupported ==
    last.op \in TransferOps \cup TraceOps => last.outcome = "NotImplementedError"

\* C5: is_open is False on a new probe, True after open() and False after
\* close().
C5_OpenStateFollowsCalls ==
    /\ last.op = "__init__" => ~is_open
    /\ last.op = "open" => is_open
    /\ last.op = "close" => ~is_open

\* C6: after a successful connect() the adapter is subscribed to the change
\* event of each GPIO option, and once connected a change of the nreset
\* option leaves the newly selected pin configured as an output.
C6_GpioOptionChangesHandled ==
    /\ (last.op = "connect" /\ last.outcome = "None") => GpioOptions \subseteq subscriptions
    /\ (last = Call("set_option", <<NRESET_GPIO_OPTION>>, "None") /\ subscriptions # {})
          => session_options.nreset \in gpio_setup

\* The position of the dot of a string of the form /dev/spidev<bus>.<device>
\* (after the head a run of decimal digits, a dot, a run of decimal digits,
\* and nothing else), or 0 when the string is not of that form
IdDot(s) ==
    LET h == Len(DevPrefix)
        dots == {n \in (h + 2)..(Len(s) - 1) :
                    /\ s[n] = "."
                    /\ \A i \in (h + 1)..Len(s) : i # n => IsDigit(s[i])}
    IN IF Len(s) > h /\ SubSeq(s, 1, h) = DevPrefix /\ dots # {}
       THEN CHOOSE n \in dots : TRUE
       ELSE 0

\* C7: from_str yields the handle of exactly the bus and device written in a
\* string of the form /dev/spidev<bus>.<device>, and fails with ValueError on
\* every other string.
C7_FromStrAcceptsExactlyTheForm ==
    id_phase \in {"parsed", "reparsed"} =>
       IF IdDot(id_str) # 0
       THEN id_handle =
              [ok |-> TRUE,
               bus |-> decimal_value(SubSeq(id_str, Len(DevPrefix) + 1,
                                            IdDot(id_str) - 1)),
               device |-> decimal_value(SubSeq(id_str, IdDot(id_str) + 1,
                                               Len(id_str)))]
       ELSE ~id_handle.ok

\* C8: the declared option list has exactly one integer option for each of
\* the three GPIO option names, so also for each name the probe subscribed
\* to, and no name twice.
C8_OneOptionPerGpioRole ==
    /\ \A name \in GpioOptions \cup subscriptions :
          Cardinality({i \in 1..Len(options) :
                          options[i].name = name /\ options[i].type = "int"}) = 1
    /\ \A i, j \in 1..Len(options) : options[i].name = options[j].name => i = j

\* C9: capabilities is exactly {SWJ_SEQUENCE, SWD_SEQUENCE};
\* supported_wire_protocols has DEFAULT and SWD and not JTAG; wire_protocol is
\* None on a new probe, becomes SWD by a successful connect(), becomes None by
\* disconnect(), is changed by nothing else, and is never JTAG.
C9_StaticCapabilities ==
    /\ [](/\ capabilities = {"SWJ_SEQUENCE", "SWD_SEQUENCE"}
          /\ "DEFAULT" \in Range(supported_wire_protocols)
          /\ "SWD" \in Range(supported_wire_protocols)
          /\ "JTAG" \notin Range(supported_wire_protocols)
          /\ wire_protocol \in {"SWD", None}
          /\ last.op = "__init__" => wire_protocol = None)
    /\ [][ wire_protocol' =
             IF last'.op = "connect" /\ last'.outcome = "None" THEN "SWD"
             ELSE IF last'.op = "disconnect" THEN None
             ELSE wire_protocol ]_vars

\* C9 witness: the probe is connected and reports SWD after an open, a
\* connect and a whole reset().
C9_Witness ==
    /\ last = Call("reset", <<>>, "None")
    /\ wire_protocol = "SWD"
    /\ is_open

\* C10: after assert_reset, directly or in reset(), is_reset_asserted() is
\* True exactly when the level last written to the nRESET pin is the asserted
\* (low) level.
C10_PinLevelFollowsArgument ==
    last.op \in {"assert_reset", "reset"} =>
       (is_reset_asserted <=> gpio_level[session_options.nreset] = Level(FALSE))

====
